---- MODULE Spec2Model ----
(***************************************************************************)
(* Model of the request handlers of src/handler.go (Dashboard, Subscribe,  *)
(* Unsubscribe, StripeHook).  Each handler invocation is a request slot    *)
(* that runs the handler's code between its blocking calls (Store get/put, *)
(* billing-provider calls); slots interleave at those calls, as the        *)
(* goroutines of net/http do.                                              *)
(*                                                                         *)
(* Account, AccountFromEmail, EnsureSubscription, SetPaymentSource,        *)
(* Subscription() and HasActiveSubscription() belong to this repository    *)
(* but are not part of src/handler.go; they are modelled from spec.md      *)
(* (sections 3, 4.1, 4.2, 6).  The billing provider and the Store are      *)
(* external collaborators modelled by their interface (section 6).         *)
(***************************************************************************)
EXTENDS Integers, FiniteSets, Sequences, TLC

VARIABLES store, prov, req, started, orphans, delivery

vars == <<store, prov, req, started, orphans, delivery>>

(* ---------------------------- bounds ----------------------------------- *)
MaxStarts == 3     \* requests ever started
MaxCust == 2       \* Customer objects the provider accepts

\* the handler invocations that may be in flight together: two, the least
\* number that lets two handlers race on one Account
Reqs == {1, 2}
Emails == {"a@b.com"}
Tokens == {"", "tok_visa"}

(* ---------------------------- data model ------------------------------- *)
\* stripe.Sub as far as the handlers read it: ID and Status (id 0 = nil)
NoSub == [id |-> 0, status |-> "none"]

\* stripe.Customer: ID, Email, Sources (non-empty or not), first Sub (id 0 = nil)
NoCust == [id |-> 0, email |-> "", source |-> FALSE, sub |-> NoSub]

\* Account: keyed by email, owns the Customer reference
NoAcc == [email |-> "", customer |-> NoCust]

NewAccount(e) == [email |-> e, customer |-> NoCust]

\* acc.Subscription(): the subscription reference, derived from the customer
Subscription(acc) == acc.customer.sub

\* acc.HasActiveSubscription()
HasActiveSubscription(acc) ==
    Subscription(acc).id # 0 /\ Subscription(acc).status = "active"

(* ---------------------------- errors ----------------------------------- *)
\* errors a provider call can return: *stripe.Error of type card_error or
\* api_error, or an error that is not a *stripe.Error at all
ErrorTypeCard == "card_error"
StripeErrors == {"card_error", "api_error"}
ProvErrors == StripeErrors \cup {"io_error"}

wrapCardError_any(err) ==
    IF err \in StripeErrors THEN "StripeError" ELSE err

\* wrapCardError: a *stripe.Error of card type becomes *StripeError, every
\* other error is returned as it is
wrapCardError(err) ==
    IF err \in StripeErrors /\ err = ErrorTypeCard THEN "StripeError" ELSE err

(* ---------------------------- webhook events --------------------------- *)
CustomerEvents == {"customer.created", "customer.updated"}
SubscriptionEvents == {"customer.subscription.created",
                       "customer.subscription.updated",
                       "customer.subscription.deleted"}
OtherEvents == {"customer.deleted", "invoice.created"}
EventTypes == CustomerEvents \cup SubscriptionEvents \cup OtherEvents

HookDispatch_all(type) ==
    IF type \in CustomerEvents THEN "payload" ELSE "fetch"

\* the switch over event.Type: where the Customer c comes from
HookDispatch(type) ==
    IF type \in CustomerEvents THEN "payload"
    ELSE IF type \in SubscriptionEvents THEN "fetch"
    ELSE "none"

\* what a request keeps of event.Type: past the switch the handler reads it
\* only for its log line, so a recognized type is kept as its family
EventClass(type) ==
    IF type \in CustomerEvents THEN "customer.*"
    ELSE IF type \in SubscriptionEvents THEN "customer.subscription.*"
    ELSE type

GuardApply_always(acc, c) == [acc EXCEPT !.customer = c]

\* the same-ID guard: acc.Customer = c only if acc.Customer.ID == c.ID
GuardApply(acc, c) ==
    IF acc.customer.id = c.id THEN [acc EXCEPT !.customer = c] ELSE acc

(* ---------------------------- request slots ---------------------------- *)
Idle == [kind |-> "idle", pc |-> "idle", email |-> "", auth |-> FALSE,
         token |-> "", evType |-> "", custArg |-> 0, c |-> NoCust,
         acc |-> NoAcc, acc0 |-> NoAcc, newSubscription |-> FALSE,
         result |-> "none", perr |-> "none", at |-> "none",
         calls |-> 0, puts |-> 0, resolved |-> FALSE, action |-> "none",
         madeCust |-> FALSE, orphan0 |-> FALSE, trace |-> <<>>,
         stale |-> FALSE, tracked |-> 0, event |-> "", sink |-> "none"]

\* the handler returns res from the step named at
Return(rq, res, at) == [rq EXCEPT !.pc = "done", !.result = res, !.at = at]

Vacant(r) == req[r].pc \in {"idle", "done"}

\* a request takes the first vacant slot
Free(r) ==
    /\ Vacant(r)
    /\ \A x \in Reqs : x < r => ~Vacant(x)
    /\ started < MaxStarts

\* what the step of slot r to rq did, kept with the request: trace lists the
\* steps at which it called the provider or put to the Store, in order, and
\* stale tells that the record it put over was no longer the one it had read
Observed(r, rq) ==
    [rq EXCEPT !.trace = IF rq.calls + rq.puts > req[r].calls + req[r].puts
                         THEN Append(rq.trace, req[r].pc)
                         ELSE rq.trace,
               !.stale = IF rq.puts > req[r].puts
                         THEN store[req[r].email] # req[r].acc0
                         ELSE rq.stale]

\* the provider's Customers that the step has created or changed
Changed == {k \in 1..Len(prov') : k > Len(prov) \/ prov'[k] # prov[k]}

\* the Customer that the webhook starting in slot r as rq is about
Notified(r, rq) ==
    IF rq.kind = "hook" /\ Vacant(r)
    THEN {rq.custArg, rq.c.id} \ {0}
    ELSE {}

\* the provider's webhook delivery, followed when delivery.on: pending holds
\* the Customers changed on the provider since the last webhook about them
\* was delivered, failed tells that some webhook did not return success
Delivered(r, rq) ==
    IF ~delivery.on THEN delivery
    ELSE [delivery EXCEPT
            !.pending = (@ \cup Changed) \ Notified(r, rq),
            !.failed = @ \/ (rq.kind = "hook" /\ rq.pc = "done"
                                               /\ rq.result # "ok")]

\* slot r moves on to rq; a slot keeps what its handler returned (the
\* response) until the next step of any handler
Set(r, rq) ==
    /\ req' = [x \in Reqs |->
                 IF x = r THEN Observed(r, rq)
                 ELSE IF req[x].pc = "done" THEN Idle
                 ELSE req[x]]
    /\ delivery' = Delivered(r, rq)

Init ==
    /\ store = [e \in Emails |-> NoAcc]
    /\ prov = <<>>
    /\ req = [r \in Reqs |-> Idle]
    /\ started = 0
    /\ orphans = {}
    /\ delivery = [on |-> FALSE, pending |-> {}, failed |-> FALSE]

(* ---------------------------- history ---------------------------------- *)
\* orphans: the IDs of the Customers that an EnsureSubscription created
\* before its Subscription creation failed.  Orphaned(e): one of them was
\* created for the email e
Orphaned(e) == \E k \in orphans : prov[k].email = e

(* ---------------------------- Account Store ---------------------------- *)
\* Server.AccountFromEmail(email, true): the stored Account, or a new one
AccountFromEmail(st, e) == IF st[e].email = e THEN st[e] ELSE NewAccount(e)

\* a put that inserts only, and keeps a record that already has a Customer
StoragePut_insert(st, acc) ==
    IF st[acc.email].customer.id # 0 THEN st ELSE [st EXCEPT ![acc.email] = acc]

\* Storage.Put(acc): upsert, last write wins
StoragePut(st, acc) == [st EXCEPT ![acc.email] = acc]

(* ---------------------------- billing provider ------------------------- *)
\* customer.New: the provider assigns the next Customer ID
ProvNewCustomer(p, e, src) ==
    Append(p, [id |-> Len(p) + 1, email |-> e, source |-> src, sub |-> NoSub])

\* customer.Update with a payment source
ProvSetSource(p, id) == [p EXCEPT ![id].source = TRUE]

NextSubId(p) == 1 + Cardinality({i \in 1..Len(p) : p[i].sub.id # 0})

\* sub.New for the default plan: a new Subscription, in its trial
ProvNewSub(p, id) ==
    [p EXCEPT ![id].sub = [id |-> NextSubId(p), status |-> "trialing"]]

SubOwner(p, sid) == CHOOSE i \in 1..Len(p) : p[i].sub.id = sid

\* the provider refuses to update or cancel a Subscription already canceled
ProvSubOpen(p, sid) ==
    /\ \E i \in 1..Len(p) : p[i].sub.id = sid
    /\ p[SubOwner(p, sid)].sub.status # "canceled"

\* sub.Update(id, TrialEndNow): the trial ends, the Subscription is active
ProvUpdateSub(p, sid) == [p EXCEPT ![SubOwner(p, sid)].sub.status = "active"]

\* sub.Cancel(id)
ProvCancelSub(p, sid) == [p EXCEPT ![SubOwner(p, sid)].sub.status = "canceled"]

(* ---------------------------- Ensure-Subscription ---------------------- *)
NeedsCustomer(acc) == acc.customer.id = 0

NeedsSubscription_inactive(acc) == Subscription(acc).status # "active"

NeedsSubscription(acc) == Subscription(acc).id = 0

\* go h.Track(event, ...): the event is handed to a goroutine and the handler
\* goes on without waiting for it
Track(rq, event) ==
    [rq EXCEPT !.tracked = @ + 1, !.event = event, !.sink = "pending"]

\* the handler's continuation once EnsureSubscription has returned a Sub
AfterEnsure(rq) ==
    IF rq.kind = "dashboard"
    THEN Track(Return(rq, "ok", "render"), "Open Dashboard")
    ELSE [rq EXCEPT !.pc = "update"]

\* EnsureSubscription: step 1 if the Customer is missing, step 2 if the
\* Subscription is missing, else the cached reference with no provider call
EnsureSubscription(rq) ==
    IF NeedsCustomer(rq.acc) THEN [rq EXCEPT !.pc = "ensureCust"]
    ELSE IF NeedsSubscription(rq.acc) THEN [rq EXCEPT !.pc = "ensureSub"]
    ELSE AfterEnsure(rq)

\* a provider call that failed with err: the caller returns res
Failed(rq, err, res, at) ==
    Return([rq EXCEPT !.calls = @ + 1, !.perr = err], res, at)

\* step 1: create the Customer on the provider and attach it
EnsureCustomer(r) ==
    /\ req[r].pc = "ensureCust"
    /\ UNCHANGED <<store, started, orphans>>
    /\ \/ /\ Len(prov) < MaxCust
          /\ prov' = ProvNewCustomer(prov, req[r].acc.email, FALSE)
          /\ Set(r, [req[r] EXCEPT !.calls = @ + 1,
                                   !.acc.customer = prov'[Len(prov')],
                                   !.madeCust = TRUE,
                                   !.pc = "ensureSub"])
       \/ /\ UNCHANGED prov
          /\ \E err \in ProvErrors : Set(r, Failed(req[r], err, err, "ensureCust"))

\* step 2: create the Subscription on the provider and attach it
EnsureSub(r) ==
    /\ req[r].pc = "ensureSub"
    /\ UNCHANGED <<store, started>>
    /\ \/ /\ prov' = ProvNewSub(prov, req[r].acc.customer.id)
          /\ UNCHANGED orphans
          /\ Set(r, AfterEnsure([req[r] EXCEPT
                    !.calls = @ + 1,
                    !.acc.customer.sub = prov'[req[r].acc.customer.id].sub]))
       \/ /\ UNCHANGED prov
          /\ \E err \in ProvErrors : Set(r, Failed(req[r], err, err, "ensureSub"))
          /\ orphans' = IF req[r].madeCust
                         THEN orphans \cup {req[r].acc.customer.id}
                         ELSE orphans

(* ---------------------------- Dashboard -------------------------------- *)
DashboardStart(r, e) ==
    /\ Free(r)
    /\ started' = started + 1
    /\ UNCHANGED <<store, prov, orphans>>
    /\ Set(r, [Idle EXCEPT !.kind = "dashboard", !.pc = "resolve",
                           !.email = e, !.auth = TRUE])

\* AccountFromEmail, then EnsureSubscription, then the rendering
DashboardResolve(r) ==
    /\ req[r].kind = "dashboard" /\ req[r].pc = "resolve"
    /\ UNCHANGED <<prov, started, orphans>>
    /\ \/ /\ Set(r, Return(req[r], "store_error", "resolve"))
          /\ UNCHANGED store
       \/ LET acc == AccountFromEmail(store, req[r].email) IN
          /\ store' = StoragePut(store, acc)
          /\ Set(r, EnsureSubscription([req[r] EXCEPT
                      !.acc = acc, !.acc0 = acc, !.resolved = TRUE,
                      !.orphan0 = Orphaned(req[r].email)]))

(* ---------------------------- Subscribe -------------------------------- *)
SubscribePrecheck_notoken(a, token) ==
    IF ~a THEN "InvalidAuthToken" ELSE "none"

\* a == nil, then token == ""
SubscribePrecheck(a, token) ==
    IF ~a THEN "InvalidAuthToken"
    ELSE IF token = "" THEN "BadRequest"
    ELSE "none"

SubscribeStart(r, e, a, token) ==
    /\ Free(r)
    /\ started' = started + 1
    /\ UNCHANGED <<store, prov, orphans>>
    /\ LET rq == [Idle EXCEPT !.kind = "subscribe", !.pc = "resolve",
                              !.email = e, !.auth = a, !.token = token]
           err == SubscribePrecheck(a, token) IN
       Set(r, IF err # "none" THEN Return(rq, err, "precheck") ELSE rq)

\* newSubscription := !acc.HasActiveSubscription()
NewSubscriptionFlag(acc) == ~HasActiveSubscription(acc)

SubscribeResolve(r) ==
    /\ req[r].kind = "subscribe" /\ req[r].pc = "resolve"
    /\ UNCHANGED <<prov, started, orphans>>
    /\ \/ /\ Set(r, Return(req[r], "store_error", "resolve"))
          /\ UNCHANGED store
       \/ LET acc == AccountFromEmail(store, req[r].email) IN
          /\ store' = StoragePut(store, acc)
          /\ Set(r, [req[r] EXCEPT !.acc = acc, !.acc0 = acc, !.resolved = TRUE,
                                   !.orphan0 = Orphaned(req[r].email),
                                   !.newSubscription = NewSubscriptionFlag(acc),
                                   !.pc = "setSource"])

\* acc.SetPaymentSource(token): attaches the token to the Account's Customer
\* on the provider (creating the Customer with it when there is none) and
\* keeps the Customer the provider returns; then EnsureSubscription
SubscribeSetSource(r) ==
    /\ req[r].kind = "subscribe" /\ req[r].pc = "setSource"
    /\ UNCHANGED <<store, started, orphans>>
    /\ \/ /\ IF NeedsCustomer(req[r].acc)
             THEN /\ Len(prov) < MaxCust
                  /\ prov' = ProvNewCustomer(prov, req[r].acc.email, TRUE)
                  /\ Set(r, EnsureSubscription([req[r] EXCEPT
                              !.calls = @ + 1,
                              !.acc.customer = prov'[Len(prov')]]))
             ELSE /\ prov' = ProvSetSource(prov, req[r].acc.customer.id)
                  /\ Set(r, EnsureSubscription([req[r] EXCEPT
                              !.calls = @ + 1,
                              !.acc.customer = prov'[req[r].acc.customer.id]]))
       \/ /\ UNCHANGED prov
          /\ \E err \in ProvErrors :
                Set(r, Failed(req[r], err, wrapCardError(err), "setSource"))

UpdateOverwrite_cached(acc, s) == acc

\* *s = *s_ after sub.Update: the Account's Subscription takes the fields of
\* the provider's response
UpdateOverwrite(acc, s) == [acc EXCEPT !.customer.sub = s]

\* sub.Update that persists the Account also when the provider call failed
SubscribeUpdate_persist(r) ==
    /\ req[r].kind = "subscribe" /\ req[r].pc = "update"
    /\ UNCHANGED <<started, orphans>>
    /\ LET sid == Subscription(req[r].acc).id IN
       \/ /\ ProvSubOpen(prov, sid)
          /\ prov' = ProvUpdateSub(prov, sid)
          /\ Set(r, [req[r] EXCEPT !.calls = @ + 1,
                                   !.acc = UpdateOverwrite(req[r].acc,
                                               prov'[SubOwner(prov, sid)].sub),
                                   !.pc = "put"])
          /\ UNCHANGED store
       \/ /\ UNCHANGED prov
          /\ \E err \in ProvErrors :
                Set(r, Failed(req[r], err, wrapCardError(err), "update"))
          /\ store' = StoragePut(store, req[r].acc)

\* sub.Update(s.ID, TrialEndNow); *s = *s_
SubscribeUpdate(r) ==
    /\ req[r].kind = "subscribe" /\ req[r].pc = "update"
    /\ UNCHANGED <<store, started, orphans>>
    /\ LET sid == Subscription(req[r].acc).id IN
       \/ /\ ProvSubOpen(prov, sid)
          /\ prov' = ProvUpdateSub(prov, sid)
          /\ Set(r, [req[r] EXCEPT !.calls = @ + 1,
                                   !.acc = UpdateOverwrite(req[r].acc,
                                               prov'[SubOwner(prov, sid)].sub),
                                   !.pc = "put"])
       \/ /\ UNCHANGED prov
          /\ \E err \in ProvErrors :
                Set(r, Failed(req[r], err, wrapCardError(err), "update"))

\* the outcome label of the redirect and of the analytics event
ActionLabel(newSubscription) ==
    IF newSubscription THEN "subscribed" ELSE "payment-updated"

SubscribeLabel_after(rq) == ActionLabel(~HasActiveSubscription(rq.acc))

\* the label is chosen by the flag captured when the Account was resolved
SubscribeLabel(rq) == ActionLabel(rq.newSubscription)

\* the name of the analytics event, chosen with the label
EventName(newSubscription) ==
    IF newSubscription THEN "Buy Subscription" ELSE "Update Payment Method"

\* h.Storage.Put(acc), then the label, the redirect and the analytics event
SubscribePut(r) ==
    /\ req[r].kind = "subscribe" /\ req[r].pc = "put"
    /\ UNCHANGED <<prov, started, orphans>>
    /\ \/ /\ Set(r, Return([req[r] EXCEPT !.puts = @ + 1], "store_error", "put"))
          /\ UNCHANGED store
       \/ /\ store' = StoragePut(store, req[r].acc)
          /\ Set(r, Track(Return([req[r] EXCEPT
                             !.puts = @ + 1,
                             !.action = SubscribeLabel(req[r])], "ok", "put"),
                         EventName(req[r].newSubscription)))

(* ---------------------------- Unsubscribe ------------------------------ *)
UnsubscribeStart(r, e) ==
    /\ Free(r)
    /\ started' = started + 1
    /\ UNCHANGED <<store, prov, orphans>>
    /\ Set(r, [Idle EXCEPT !.kind = "unsubscribe", !.pc = "resolve",
                           !.email = e, !.auth = TRUE])

\* s := acc.Subscription(); if s == nil the handler returns BadRequest
UnsubscribeCheck(rq) ==
    IF Subscription(rq.acc).id = 0 THEN Return(rq, "BadRequest", "check")
    ELSE [rq EXCEPT !.pc = "cancel"]

UnsubscribeResolve(r) ==
    /\ req[r].kind = "unsubscribe" /\ req[r].pc = "resolve"
    /\ UNCHANGED <<prov, started, orphans>>
    /\ \/ /\ Set(r, Return(req[r], "store_error", "resolve"))
          /\ UNCHANGED store
       \/ LET acc == AccountFromEmail(store, req[r].email) IN
          /\ store' = StoragePut(store, acc)
          /\ Set(r, UnsubscribeCheck([req[r] EXCEPT !.acc = acc, !.acc0 = acc,
                                                    !.resolved = TRUE]))

CancelOverwrite_null(acc, s) == [acc EXCEPT !.customer.sub = NoSub]

\* *s = *s_ after sub.Cancel: the reference stays, with the fields of the
\* provider's response
CancelOverwrite(acc, s) == [acc EXCEPT !.customer.sub = s]

\* sub.Cancel(s.ID, nil); *s = *s_
UnsubscribeCancel(r) ==
    /\ req[r].kind = "unsubscribe" /\ req[r].pc = "cancel"
    /\ UNCHANGED <<store, started, orphans>>
    /\ LET sid == Subscription(req[r].acc).id IN
       \/ /\ ProvSubOpen(prov, sid)
          /\ prov' = ProvCancelSub(prov, sid)
          /\ Set(r, [req[r] EXCEPT !.calls = @ + 1,
                                   !.acc = CancelOverwrite(req[r].acc,
                                               prov'[SubOwner(prov, sid)].sub),
                                   !.pc = "put"])
       \/ /\ UNCHANGED prov
          /\ \E err \in ProvErrors : Set(r, Failed(req[r], err, err, "cancel"))

\* h.Storage.Put(acc), then the redirect
UnsubscribePut(r) ==
    /\ req[r].kind = "unsubscribe" /\ req[r].pc = "put"
    /\ UNCHANGED <<prov, started, orphans>>
    /\ \/ /\ Set(r, Return([req[r] EXCEPT !.puts = @ + 1], "store_error", "put"))
          /\ UNCHANGED store
       \/ /\ store' = StoragePut(store, req[r].acc)
          /\ Set(r, Track(Return([req[r] EXCEPT !.puts = @ + 1,
                                                !.action = "unsubscribed"],
                                "ok", "put"),
                         "Cancel Subscription"))

(* ---------------------------- StripeHook ------------------------------- *)
\* the body is read and parsed into the event; customer events carry the
\* Customer in their payload, subscription events the Customer's ID
HookStart(r, bodyOk, type, payloadOk, c, id) ==
    /\ Free(r)
    /\ started' = started + 1
    /\ UNCHANGED <<store, prov, orphans>>
    /\ LET rq == [Idle EXCEPT !.kind = "hook", !.evType = EventClass(type)]
           ev == [rq EXCEPT !.evType = type] IN
       Set(r, IF ~bodyOk THEN Return([rq EXCEPT !.evType = ""], "parse_error", "body")
              ELSE IF HookDispatch(type) = "payload"
                   THEN IF payloadOk
                        THEN [rq EXCEPT !.c = c, !.pc = "resolve"]
                        ELSE Return(ev, "parse_error", "payload")
              ELSE IF HookDispatch(type) = "fetch"
                   THEN [rq EXCEPT !.custArg = id, !.pc = "get"]
              ELSE Return(ev, "ok", "switch"))

\* customer.Get that returns the Customer without its Subscription
HookGet_bare(r) ==
    /\ req[r].kind = "hook" /\ req[r].pc = "get"
    /\ UNCHANGED <<store, prov, started, orphans>>
    /\ \/ /\ req[r].custArg \in 1..Len(prov)
          /\ Set(r, [req[r] EXCEPT !.calls = @ + 1,
                                   !.c = [prov[req[r].custArg] EXCEPT !.sub = NoSub],
                                   !.pc = "resolve"])
       \/ \E err \in ProvErrors : Set(r, Failed(req[r], err, err, "get"))

\* customer.Get(event.GetObjValue("customer"), nil)
HookGet(r) ==
    /\ req[r].kind = "hook" /\ req[r].pc = "get"
    /\ UNCHANGED <<store, prov, started, orphans>>
    /\ \/ /\ req[r].custArg \in 1..Len(prov)
          /\ Set(r, [req[r] EXCEPT !.calls = @ + 1, !.c = prov[req[r].custArg],
                                   !.pc = "resolve"])
       \/ \E err \in ProvErrors : Set(r, Failed(req[r], err, err, "get"))

\* if acc.Customer.ID == c.ID { acc.Customer = c }: acc.Customer is a
\* pointer, and reading its ID when it is nil panics
HookGuard(rq) ==
    IF rq.acc.customer.id = 0 THEN Return(rq, "panic", "guard")
    ELSE [rq EXCEPT !.acc = GuardApply(rq.acc, rq.c), !.pc = "put"]

\* AccountFromEmail(c.Email, true), then the guard
HookResolve(r) ==
    /\ req[r].kind = "hook" /\ req[r].pc = "resolve"
    /\ UNCHANGED <<prov, started, orphans>>
    /\ \/ /\ Set(r, Return(req[r], "store_error", "resolve"))
          /\ UNCHANGED store
       \/ LET acc == AccountFromEmail(store, req[r].c.email) IN
          /\ store' = StoragePut(store, acc)
          /\ Set(r, HookGuard([req[r] EXCEPT !.acc = acc, !.acc0 = acc,
                                             !.email = acc.email,
                                             !.resolved = TRUE]))

\* h.Storage.Put(acc), whether or not the guard let c in
HookPut(r) ==
    /\ req[r].kind = "hook" /\ req[r].pc = "put"
    /\ UNCHANGED <<prov, started, orphans>>
    /\ \/ /\ Set(r, Return([req[r] EXCEPT !.puts = @ + 1], "store_error", "put"))
          /\ UNCHANGED store
       \/ /\ store' = StoragePut(store, req[r].acc)
          /\ Set(r, Return([req[r] EXCEPT !.puts = @ + 1], "ok", "put"))

(* ---------------------------- analytics -------------------------------- *)
\* a sink whose failure is reported as the result of the handler
TrackSink_report(r) ==
    /\ req[r].pc = "done" /\ req[r].sink = "pending"
    /\ UNCHANGED <<store, prov, started, orphans>>
    /\ \/ Set(r, [req[r] EXCEPT !.sink = "ok"])
       \/ Set(r, [req[r] EXCEPT !.sink = "failed", !.result = "track_error"])

\* the goroutine of go h.Track delivers the event to the sink, or fails;
\* nothing reads its error
TrackSink(r) ==
    /\ req[r].pc = "done" /\ req[r].sink = "pending"
    /\ UNCHANGED <<store, prov, started, orphans>>
    /\ \/ Set(r, [req[r] EXCEPT !.sink = "ok"])
       \/ Set(r, [req[r] EXCEPT !.sink = "failed"])

(* ---------------------------- specification ---------------------------- *)
Next ==
    \E r \in Reqs :
        \/ \E e \in Emails : DashboardStart(r, e)
        \/ DashboardResolve(r)
        \/ EnsureCustomer(r)
        \/ EnsureSub(r)
        \/ \E e \in Emails, a \in BOOLEAN, token \in Tokens :
               SubscribeStart(r, e, a, token)
        \/ SubscribeResolve(r)
        \/ SubscribeSetSource(r)
        \/ SubscribeUpdate(r)
        \/ SubscribePut(r)
        \/ \E e \in Emails : UnsubscribeStart(r, e)
        \/ UnsubscribeResolve(r)
        \/ UnsubscribeCancel(r)
        \/ UnsubscribePut(r)
        \/ HookStart(r, FALSE, "", FALSE, NoCust, 0)
        \/ \E type \in CustomerEvents : HookStart(r, TRUE, type, FALSE, NoCust, 0)
        \/ \E type \in CustomerEvents, i \in 1..MaxCust :
               /\ i <= Len(prov)
               /\ HookStart(r, TRUE, type, TRUE, prov[i], 0)
        \/ \E type \in SubscriptionEvents, i \in 1..MaxCust :
               HookStart(r, TRUE, type, TRUE, NoCust, i)
        \/ \E type \in OtherEvents : HookStart(r, TRUE, type, TRUE, NoCust, 0)
        \/ HookGet(r)
        \/ HookResolve(r)
        \/ HookPut(r)
        \/ TrackSink(r)

Spec == Init /\ [][Next]_vars

\* the same program with the provider's webhook delivery followed; every
\* handler that has started runs on until it returns
InitSync ==
    /\ store = [e \in Emails |-> NoAcc]
    /\ prov = <<>>
    /\ req = [r \in Reqs |-> Idle]
    /\ started = 0
    /\ orphans = {}
    /\ delivery = [on |-> TRUE, pending |-> {}, failed |-> FALSE]

SpecSync == InitSync /\ [][Next]_vars /\ WF_vars(Next)

(* ---------------------------- properties ------------------------------- *)
Done(r) == req[r].pc = "done"

\* a webhook request that resolved the Account for c's email and ran the guard
HookGuarded(r) ==
    /\ req[r].kind = "hook" /\ req[r].resolved
    /\ req[r].pc \in {"put", "done"}

\* C1: a webhook whose Customer c resolves to an Account that already holds
\* a Customer replaces the Account's Customer by c when the two IDs are
\* equal, leaves it exactly as it was when they differ, and a put that
\* succeeds stores the Account so decided
C1_SameIdGuard ==
    \A r \in Reqs :
        HookGuarded(r) /\ req[r].acc0.customer.id # 0 =>
            /\ req[r].acc0.customer.id = req[r].c.id =>
                   req[r].acc.customer = req[r].c
            /\ req[r].acc0.customer.id # req[r].c.id =>
                   req[r].acc.customer = req[r].acc0.customer
            /\ Done(r) /\ req[r].result = "ok" =>
                   store[req[r].email] = req[r].acc

C1_Witness ==
    \E r \in Reqs :
        /\ HookGuarded(r) /\ Done(r) /\ req[r].result = "ok"
        /\ req[r].acc0.customer.id # 0
        /\ req[r].acc0.customer.id # req[r].c.id
        /\ req[r].c.email = req[r].email

\* C2: a webhook whose Customer c resolves to an Account with no Customer
\* ends without fault, with the Account's Customer set to c and stored
C2_HookOnEmptyAccount ==
    \A r \in Reqs :
        /\ req[r].kind = "hook" /\ req[r].resolved /\ Done(r)
        /\ req[r].acc0.customer.id = 0
        => /\ req[r].result # "panic"
           /\ req[r].acc.customer = req[r].c
           /\ req[r].result = "ok" => store[req[r].email] = req[r].acc

\* C3: when the guard fails (the IDs differ) the webhook handler returns
\* success and issues no Store put
C3_GuardFailNoPut ==
    \A r \in Reqs :
        /\ HookGuarded(r) /\ Done(r)
        /\ req[r].acc0.customer.id # 0
        /\ req[r].acc0.customer.id # req[r].c.id
        => /\ req[r].result = "ok"
           /\ req[r].puts = 0

\* C4: an event of a type outside the five recognized ones returns success
\* at the switch, with no provider call, no Account resolved or created and
\* no Store put
C4_UnrecognizedNoop ==
    \A r \in Reqs :
        req[r].kind = "hook" /\ req[r].evType \in OtherEvents =>
            /\ Done(r) /\ req[r].result = "ok"
            /\ req[r].calls = 0 /\ req[r].puts = 0
            /\ ~req[r].resolved /\ req[r].acc = NoAcc

C4_Witness ==
    \E r \in Reqs :
        /\ req[r].kind = "hook" /\ req[r].evType \in OtherEvents /\ Done(r)
        /\ \E e \in Emails : store[e].customer.id # 0

\* C5: on an Account that has a Customer and a Subscription, Ensure-
\* Subscription issues no provider call and returns the cached Subscription:
\* a Dashboard request on it ends with no provider call, and a request is at
\* one of the creating steps only when the Customer or Subscription is missing
C5_EnsureIdempotent ==
    \A r \in Reqs :
        /\ req[r].pc \in {"ensureCust", "ensureSub"} =>
               req[r].acc.customer.id = 0 \/ Subscription(req[r].acc).id = 0
        /\ /\ req[r].kind = "dashboard" /\ req[r].resolved /\ Done(r)
           /\ req[r].acc0.customer.id # 0 /\ Subscription(req[r].acc0).id # 0
           => /\ req[r].result = "ok"
              /\ req[r].calls = 0
              /\ Subscription(req[r].acc) = Subscription(req[r].acc0)

C5_Witness ==
    \E r \in Reqs :
        /\ req[r].kind = "dashboard" /\ Done(r) /\ req[r].result = "ok"
        /\ Subscription(req[r].acc0).id # 0
        /\ Subscription(req[r].acc0).status = "trialing"

\* C6: once an Ensure-Subscription has created a Customer for an account
\* and then failed to create the Subscription, no later Dashboard or
\* Subscribe request for that account creates another Customer
C6_NoSecondCustomer ==
    \A r \in Reqs :
        /\ req[r].kind \in {"dashboard", "subscribe"}
        /\ req[r].resolved /\ req[r].orphan0
        => req[r].acc.customer.id = req[r].acc0.customer.id

\* C7: Unsubscribe on an Account with no subscription reference, or with a
\* retained canceled one, returns the malformed-request error with no
\* provider call and no Store put
C7_UnsubscribeInactive ==
    \A r \in Reqs :
        /\ req[r].kind = "unsubscribe" /\ req[r].resolved /\ Done(r)
        /\ \/ Subscription(req[r].acc0).id = 0
           \/ Subscription(req[r].acc0).status = "canceled"
        => /\ req[r].result = "BadRequest"
           /\ req[r].calls = 0
           /\ req[r].puts = 0

\* C8: an authenticated Subscribe with an empty token returns the
\* malformed-request error at once: no Account resolved or created, no
\* provider call, no Store put
C8_SubscribeNoToken ==
    \A r \in Reqs :
        req[r].kind = "subscribe" /\ req[r].auth /\ req[r].token = "" =>
            /\ Done(r) /\ req[r].result = "BadRequest"
            /\ ~req[r].resolved /\ req[r].acc = NoAcc
            /\ req[r].calls = 0 /\ req[r].puts = 0

C8_Witness ==
    \E r \in Reqs :
        /\ req[r].kind = "subscribe" /\ req[r].auth /\ req[r].token = ""
        /\ Done(r)
        /\ \E e \in Emails : store[e].customer.id # 0

\* C9: a successful Subscribe is labelled "subscribed" exactly when the
\* Account as resolved had no active subscription, "payment-updated"
\* otherwise, whatever the request did to the Account afterwards
C9_LabelByResolvedState ==
    \A r \in Reqs :
        req[r].kind = "subscribe" /\ Done(r) /\ req[r].result = "ok" =>
            /\ req[r].action \in {"subscribed", "payment-updated"}
            /\ req[r].action = "subscribed" <=> ~HasActiveSubscription(req[r].acc0)

C9_Witness ==
    \E r \in Reqs :
        /\ req[r].kind = "subscribe" /\ Done(r) /\ req[r].result = "ok"
        /\ req[r].action = "subscribed"
        /\ HasActiveSubscription(req[r].acc)

\* C10: when attaching the payment source or ending the trial fails, the
\* handler returns the card error kind exactly when the provider error is
\* a card error, returns every other provider error as it is, and issues
\* no Store put
C10_CardErrorClass ==
    \A r \in Reqs :
        /\ req[r].kind = "subscribe" /\ Done(r)
        /\ req[r].at \in {"setSource", "update"}
        => /\ req[r].perr \in ProvErrors
           /\ req[r].result = "StripeError" <=> req[r].perr = ErrorTypeCard
           /\ req[r].perr # ErrorTypeCard => req[r].result = req[r].perr
           /\ req[r].puts = 0

C10_Witness ==
    \E r \in Reqs :
        /\ req[r].kind = "subscribe" /\ Done(r) /\ req[r].at = "update"
        /\ req[r].result = "StripeError"

\* the steps at which Subscribe and Unsubscribe call the provider
ProviderSteps == {"setSource", "ensureCust", "ensureSub", "update", "cancel"}

\* slot r returns in this step, from a provider call that failed
ProviderFailure(r) ==
    /\ req[r].pc # "done" /\ req'[r].pc = "done"
    /\ req'[r].kind \in {"subscribe", "unsubscribe"}
    /\ req'[r].at \in ProviderSteps

\* C11: a Subscribe or Unsubscribe whose provider call fails returns in a
\* step that leaves the Store as it was, having issued no Store put: what
\* the request changed on its in-memory Account reaches no later request
C11_ProviderFailureNoStore ==
    [][\A r \in Reqs :
          ProviderFailure(r) => /\ store' = store
                                /\ req'[r].puts = 0
                                /\ req'[r].result # "ok"]_vars

C11_Witness ==
    \E r \in Reqs :
        /\ req[r].kind = "subscribe" /\ Done(r) /\ req[r].at = "update"
        /\ req[r].acc # req[r].acc0
        /\ store[req[r].email] # req[r].acc

\* C12: after a successful Unsubscribe the stored Account still holds the
\* subscription reference, with the ID it had and the status canceled of
\* the provider's response
C12_CanceledRetained ==
    \A r \in Reqs :
        req[r].kind = "unsubscribe" /\ Done(r) /\ req[r].result = "ok" =>
            /\ store[req[r].email] = req[r].acc
            /\ Subscription(req[r].acc).id # 0
            /\ Subscription(req[r].acc).id = Subscription(req[r].acc0).id
            /\ Subscription(req[r].acc).status = "canceled"
            /\ req[r].acc.customer.id = req[r].acc0.customer.id

C12_Witness ==
    \E r \in Reqs :
        /\ req[r].kind = "unsubscribe" /\ Done(r) /\ req[r].result = "ok"
        /\ Subscription(req[r].acc0).status = "active"

\* slot r holds a subscription event whose handling has returned success
SubEventHandled(r) ==
    /\ req[r].kind = "hook" /\ req[r].custArg # 0
    /\ Done(r) /\ req[r].result = "ok"

\* C13: a subscription event makes the handler fetch the provider's Customer
\* of the ID in the payload, and when the Account of that Customer's email
\* holds a Customer of the same ID, the Account stored is the one holding
\* the fetched Customer
C13_SubscriptionEventSync ==
    /\ [](\A r \in Reqs :
             SubEventHandled(r) /\ req[r].acc0.customer.id = req[r].c.id =>
                 /\ store[req[r].c.email].customer = req[r].c
                 /\ req[r].c.id = req[r].custArg
                 /\ req[r].calls = 1 /\ req[r].puts = 1)
    /\ [][\A r \in Reqs :
             req[r].kind = "hook" /\ req[r].pc = "get" /\ req'[r].pc = "resolve"
                 => req'[r].c = prov[req[r].custArg]]_vars

C13_Witness ==
    \E r \in Reqs :
        /\ SubEventHandled(r) /\ req[r].acc0.customer.id = req[r].c.id
        /\ Subscription(req[r].acc0).status = "active"
        /\ req[r].c.sub.status = "canceled"
        /\ Subscription(store[req[r].c.email]).status = "canceled"

\* C14: a webhook returns an error only when reading or parsing the body,
\* or a Store operation, fails; in every other case, an unrecognized event
\* type included, it returns success
C14_HookErrorCases ==
    \A r \in Reqs :
        req[r].kind = "hook" /\ Done(r) =>
            /\ req[r].result \in {"ok", "parse_error", "store_error"}
            /\ req[r].result = "parse_error" => req[r].at \in {"body", "payload"}
            /\ req[r].result = "store_error" => req[r].at \in {"resolve", "put"}
            /\ req[r].evType \in OtherEvents => req[r].result = "ok"

\* C15: a successful Subscribe has called, in this order, the attachment of
\* the payment source, Ensure-Subscription (a provider call only when the
\* Subscription is missing), the trial-end update and the Store put, and the
\* Account it stored carries the Subscription of the update's response
C15_SubscribeOrder ==
    \A r \in Reqs :
        req[r].kind = "subscribe" /\ Done(r) /\ req[r].result = "ok" =>
            /\ req[r].trace \in {<<"setSource", "update", "put">>,
                                 <<"setSource", "ensureSub", "update", "put">>}
            /\ store[req[r].email] = req[r].acc
            /\ req[r].acc.customer.source
            /\ Subscription(req[r].acc).status = "active"

C15_Witness ==
    \E r \in Reqs :
        /\ req[r].kind = "subscribe" /\ Done(r) /\ req[r].result = "ok"
        /\ req[r].trace = <<"setSource", "ensureSub", "update", "put">>
        /\ Subscription(req[r].acc0).id = 0

\* Ensure-Subscription has just returned a Subscription to the handler of
\* slot r
EnsureReturned(r) ==
    \/ req[r].kind = "dashboard" /\ Done(r) /\ req[r].result = "ok"
    \/ req[r].kind = "subscribe" /\ req[r].pc = "update"

\* C16: whatever the Account's history, a successful Ensure-Subscription
\* leaves it with a subscription reference whose status is active or
\* trialing, and a successful Subscribe of an unsubscribed Account ends with
\* an active Subscription, not the canceled one
C16_EnsureUsable ==
    \A r \in Reqs :
        /\ EnsureReturned(r) =>
               /\ Subscription(req[r].acc).id # 0
               /\ Subscription(req[r].acc).status \in {"active", "trialing"}
        /\ req[r].kind = "subscribe" /\ Done(r) /\ req[r].result = "ok" =>
               Subscription(store[req[r].email]).status = "active"

\* slot r has put its Account after another handler had written the record
\* that r had read, and the put succeeded
StalePut(r) ==
    /\ Done(r) /\ req[r].at = "put" /\ req[r].result = "ok"
    /\ req[r].stale

\* C18: no handler compares the stored record with the one it read, so a put
\* made over a record that another handler has written since is stored as it
\* is: the later put wins and the earlier writer's update is gone
C18_LastWriteWins ==
    \A r \in Reqs : StalePut(r) => store[req[r].email] = req[r].acc

\* a webhook puts the Account it read while the Subscription was active over
\* the canceled one that an Unsubscribe has stored since
C18_Witness ==
    \E r \in Reqs :
        /\ StalePut(r) /\ req[r].kind = "hook"
        /\ Subscription(req[r].acc0).status = "active"
        /\ Subscription(store[req[r].email]).status = "active"
        /\ req[r].acc.customer.id # 0
        /\ prov[req[r].acc.customer.id].sub.status = "canceled"

\* the provider's Customers, and its Subscriptions, of the email e
CustomersOf(e) == {k \in 1..Len(prov) : prov[k].email = e}

SubscriptionsOf(e) == {k \in CustomersOf(e) : prov[k].sub.id # 0}

\* C19: however Dashboard and Subscribe requests of one email that has no
\* Customer interleave, the provider ends with at most one Customer and at
\* most one Subscription of that email
C19_NoDuplicateObjects ==
    \A e \in Emails :
        /\ Cardinality(CustomersOf(e)) <= 1
        /\ Cardinality(SubscriptionsOf(e)) <= 1

\* C20: a Subscribe or Unsubscribe dispatches its analytics event once, and
\* only when it returns success after its Store put has succeeded; it
\* dispatches none on an error path, and the sink's failure leaves the
\* handler's result as it was
C20_TrackAfterPersist ==
    \A r \in Reqs :
        req[r].kind \in {"subscribe", "unsubscribe"} =>
            /\ req[r].tracked \in {0, 1}
            /\ req[r].tracked = 1 <=>
                   /\ Done(r) /\ req[r].result = "ok" /\ req[r].puts = 1
                   /\ req[r].trace[Len(req[r].trace)] = "put"
            /\ req[r].sink # "none" <=> req[r].tracked = 1
            /\ req[r].tracked = 1 =>
                   req[r].event = IF req[r].kind = "unsubscribe"
                                  THEN "Cancel Subscription"
                                  ELSE EventName(req[r].newSubscription)

C20_Witness ==
    \E r \in Reqs :
        /\ req[r].kind = "subscribe" /\ Done(r)
        /\ req[r].tracked = 1 /\ req[r].sink = "failed"
        /\ req[r].result = "ok"

\* no handler is running
Quiescent == \A r \in Reqs : Vacant(r)

\* the stored Account of e holds its Customer, Subscription included, as the
\* provider has it
Agrees(e) ==
    store[e].customer.id # 0 =>
        store[e].customer = prov[store[e].customer.id]

\* C17: once every request has returned and a webhook has been delivered,
\* and handled with success, for every change made on the provider, each
\* stored Account holds its Customer and Subscription as the provider has
\* them
C17_QuiescentAgreement ==
    /\ delivery.on /\ Quiescent
    /\ delivery.pending = {} /\ ~delivery.failed
    => \A e \in Emails : Agrees(e)

====
